---------------------------- MODULE Spec2Model ----------------------------
(***************************************************************************)
(* Model of api/ocr-summarize.ts: the Vercel request handler that reads a  *)
(* fileURL parameter, fetches the file, buffers its body, hands it to      *)
(* pdf-parse and answers with one JSON envelope.                           *)
(*                                                                         *)
(* One invocation of handler() is a small sequential process; its await    *)
(* points (fetch, arrayBuffer, pdfParse) and every res.status().json()     *)
(* call are steps whose outcome the environment chooses.  Texts are        *)
(* sequences of characters so that String.prototype.trim is computed, not  *)
(* assumed.                                                                *)
(***************************************************************************)
EXTENDS Integers, Sequences, FiniteSets, TLC

(* ------------------------------ bounds -------------------------------- *)

\* Longest text the parser returns.
MaxLen == 3

(* ------------------------- values of the model ------------------------ *)

\* The two handler invocations that may be in flight.
Invocations == {1, 2}

\* JavaScript's undefined, as the value of a missing property.
Undefined == "undefined"

\* A local variable of the handler that has not been assigned yet.
NoVal == [tag |-> "unset"]

\* Characters of the texts; WhiteSpace are the ones trim() strips.
Chars == {"a", " "}

WhiteSpace == {" "}

Strings(n) == UNION {[1..k -> Chars] : k \in 0..n}

\* req.query.fileURL: missing, present but empty, or a location.
QueryValues == {Undefined, "", "http://q"}

\* req.body: no body, a body the platform's lazy getter cannot parse (the
\* access throws), or a parsed object with or without a fileURL field.
Bodies ==
  {[kind |-> "none", fileURL |-> Undefined],
   [kind |-> "malformed", fileURL |-> Undefined]}
  \cup {[kind |-> "object", fileURL |-> v] : v \in {Undefined, "", "http://b"}}

\* Values a step may throw: an Error with a message, an Error without one,
\* a thrown string (no message property), and null (no properties at all).
\* str is String(value).
Thrown ==
  {[type |-> "Error",  message |-> "boom",    str |-> "Error: boom"],
   [type |-> "Error",  message |-> "",        str |-> "Error"],
   [type |-> "string", message |-> Undefined, str |-> "oops"],
   [type |-> "null",   message |-> Undefined, str |-> "null"]}

\* What the platform's body getter throws on an unparsable body.
InvalidJSON == [type |-> "Error", message |-> "Invalid JSON", str |-> "Error: Invalid JSON"]

\* What a failing res.status().json() throws.
WriteFault == [type |-> "Error", message |-> "write failed", str |-> "Error: write failed"]

\* HTTP statuses the remote server may answer with.
Statuses == {200, 404, 500}

\* node-fetch's Response: ok is true exactly for a 2xx status.
Response(s) == [tag |-> "response", status |-> s, ok |-> (s >= 200 /\ s <= 299)]

\* pdf-parse's results: nothing, an object without text, an object with text.
ParseResults(n) ==
  {[tag |-> "null"], [tag |-> "object"]}
  \cup {[tag |-> "object", text |-> s] : s \in Strings(n)}

(* ---------------------------- pure helpers ---------------------------- *)

\* JavaScript truthiness of a string-or-undefined value.
Truthy(v) == v \notin {Undefined, ""}

RECURSIVE TrimStart(_)
TrimStart(s) ==
  IF s = <<>> THEN s
  ELSE IF Head(s) \in WhiteSpace THEN TrimStart(Tail(s)) ELSE s

RECURSIVE TrimEnd(_)
TrimEnd(s) ==
  IF s = <<>> THEN s
  ELSE IF s[Len(s)] \in WhiteSpace THEN TrimEnd(SubSeq(s, 1, Len(s) - 1)) ELSE s

\* String.prototype.trim
Trim(s) == TrimEnd(TrimStart(s))

\* Whether evaluating line 9 touches req.body and the getter throws:
\* || short-circuits, so the body is read only when the query value is falsy.
BodyAccessThrows(r) == ~Truthy(r.query) /\ r.body.kind = "malformed"

\* Mutant: the body's field is preferred over the query parameter.
ReadFileURL_bodyFirst(r) ==
  IF r.body.kind = "object" /\ Truthy(r.body.fileURL) THEN r.body.fileURL
  ELSE r.query

\* (req.query.fileURL as string) || (req.body && req.body.fileURL)
ReadFileURL(r) ==
  IF Truthy(r.query) THEN r.query
  ELSE IF r.body.kind = "object" THEN r.body.fileURL
  ELSE Undefined

\* Mutant: only the empty string counts as missing.
Missing_onlyEmpty(f) == f = ""

\* !fileURL
Missing(f) == ~Truthy(f)

\* Mutant: the status check is dropped.
FetchRejected_never(resp) == FALSE

\* Mutant: only a 404 is taken for a failed fetch.
FetchRejected_only404(resp) == resp.status = 404

\* !response.ok
FetchRejected(resp) == ~resp.ok

\* Mutant: a fetch that throws is tried again.
OnFetchThrow_retry == "fetch"

\* Where control goes when the awaited fetch throws: the enclosing catch.
OnFetchThrow == "catch"

\* Whether err.message can be evaluated: it throws a TypeError on null.
HasProperties(e) == e.type # "null"

\* err.message || String(err)
ErrorMessage(e) == IF Truthy(e.message) THEN e.message ELSE e.str

MissingParamResponse ==
  [status |-> 400, body |-> [ok |-> FALSE, error |-> "Missing fileURL parameter"]]

FetchFailedResponse ==
  [status |-> 400, body |-> [ok |-> FALSE, error |-> "Unable to fetch file from provided URL"]]

SuccessResponse(t) == [status |-> 200, body |-> [ok |-> TRUE, text |-> t]]

ServerErrorResponse(e) ==
  [status |-> 500, body |-> [ok |-> FALSE, error |-> ErrorMessage(e)]]

(* ------------------------------- state -------------------------------- *)

VARIABLES
  pc,         \* pc[i]: where invocation i stands
  req,        \* req[i]: the request, [query, body]
  fileURL,    \* the handler's local fileURL
  response,   \* the handler's local response (fetch's result)
  buffer,     \* whether the local buffer holds the whole body
  data,       \* the handler's local data (pdfParse's result)
  err,        \* the value caught by the catch clause
  calls,      \* calls[i]: the res.status().json() calls made, in order
  trace       \* trace[i]: the fetch/arrayBuffer/pdfParse calls made, in order

vars == <<pc, req, fileURL, response, buffer, data, err, calls, trace>>

\* Mutant: the extracted text is accumulated in a module-level variable
\* shared by the invocations instead of a local one.
ExtractedText_shared(d) ==
  LET own == IF d.tag = "null" THEN <<>>
             ELSE IF "text" \notin DOMAIN d THEN <<>>
             ELSE Trim(d.text)
      earlier == {j \in Invocations :
                    data[j].tag = "object" /\ "text" \in DOMAIN data[j]}
  IN IF earlier = {} THEN own
     ELSE Trim(data[CHOOSE j \in earlier : TRUE].text) \o own

\* Mutant: only leading whitespace is removed.
ExtractedText_trimStart(d) ==
  IF d.tag = "null" THEN <<>>
  ELSE IF "text" \notin DOMAIN d THEN <<>>
  ELSE TrimStart(d.text)

\* Mutant: the text is passed on untrimmed.
ExtractedText_noTrim(d) ==
  IF d.tag = "null" THEN <<>>
  ELSE IF "text" \notin DOMAIN d THEN <<>>
  ELSE d.text

\* data?.text?.trim() ?? ""
ExtractedText(d) ==
  IF d.tag = "null" THEN <<>>
  ELSE IF "text" \notin DOMAIN d THEN <<>>
  ELSE Trim(d.text)

Finished == {"done", "rejected"}

\* The responses invocation i actually sent.
Sent(i) == SelectSeq(calls[i], LAMBDA c : c.delivered)

(* ------------------------------ actions ------------------------------- *)

\* return res.status(r.status).json(r.body): the write is delivered and the
\* handler returns, or the write throws; inside the try block the fault is
\* caught by the catch clause, inside the catch clause it escapes the handler.
Respond(i, r, inTry) ==
  \E delivered \in BOOLEAN :
    /\ calls' = [calls EXCEPT ![i] =
                   Append(@, [status |-> r.status, body |-> r.body,
                              delivered |-> delivered])]
    /\ IF delivered
         THEN pc' = [pc EXCEPT ![i] = "done"] /\ UNCHANGED err
         ELSE IF inTry
           THEN pc' = [pc EXCEPT ![i] = "catch"]
                /\ err' = [err EXCEPT ![i] = WriteFault]
           ELSE pc' = [pc EXCEPT ![i] = "rejected"] /\ UNCHANGED err

\* A request arrives and the platform invokes handler(req, res).
Start(i) ==
  /\ pc[i] = "idle"
  /\ \E q \in QueryValues, b \in Bodies :
       req' = [req EXCEPT ![i] = [query |-> q, body |-> b]]
  /\ pc' = [pc EXCEPT ![i] = "read"]
  /\ UNCHANGED <<fileURL, response, buffer, data, err, calls, trace>>

\* Lines 7-16: read fileURL, answer 400 when it is missing.
ReadParam(i) ==
  /\ pc[i] = "read"
  /\ IF BodyAccessThrows(req[i])
       THEN /\ pc' = [pc EXCEPT ![i] = "catch"]
            /\ err' = [err EXCEPT ![i] = InvalidJSON]
            /\ UNCHANGED <<fileURL, calls>>
       ELSE /\ fileURL' = [fileURL EXCEPT ![i] = ReadFileURL(req[i])]
            /\ IF Missing(ReadFileURL(req[i]))
                 THEN Respond(i, MissingParamResponse, TRUE)
                 ELSE pc' = [pc EXCEPT ![i] = "fetch"] /\ UNCHANGED <<err, calls>>
  /\ UNCHANGED <<req, response, buffer, data, trace>>

\* Lines 18-24: await fetch(fileURL), answer 400 when the response is not ok.
Fetch(i) ==
  /\ pc[i] = "fetch"
  /\ \/ \E e \in Thrown :
          /\ trace' = [trace EXCEPT ![i] =
                         Append(@, [op |-> "fetch", arg |-> fileURL[i], result |-> "throw", value |-> e])]
          /\ pc' = [pc EXCEPT ![i] = OnFetchThrow]
          /\ err' = [err EXCEPT ![i] = e]
          /\ UNCHANGED <<response, calls>>
     \/ \E s \in Statuses :
          /\ response' = [response EXCEPT ![i] = Response(s)]
          /\ IF FetchRejected(Response(s))
               THEN /\ trace' = [trace EXCEPT ![i] =
                                   Append(@, [op |-> "fetch", arg |-> fileURL[i], result |-> "notok", value |-> Response(s)])]
                    /\ Respond(i, FetchFailedResponse, TRUE)
               ELSE /\ trace' = [trace EXCEPT ![i] =
                                   Append(@, [op |-> "fetch", arg |-> fileURL[i], result |-> "ok", value |-> Response(s)])]
                    /\ pc' = [pc EXCEPT ![i] = "buffer"]
                    /\ UNCHANGED <<err, calls>>
  /\ UNCHANGED <<req, fileURL, buffer, data>>

\* Line 26: Buffer.from(await response.arrayBuffer()).
ArrayBuffer(i) ==
  /\ pc[i] = "buffer"
  /\ \/ \E e \in Thrown :
          /\ trace' = [trace EXCEPT ![i] =
                         Append(@, [op |-> "arrayBuffer", arg |-> fileURL[i], result |-> "throw", value |-> e])]
          /\ pc' = [pc EXCEPT ![i] = "catch"]
          /\ err' = [err EXCEPT ![i] = e]
          /\ UNCHANGED buffer
     \/ /\ trace' = [trace EXCEPT ![i] =
                       Append(@, [op |-> "arrayBuffer", arg |-> fileURL[i], result |-> "ok", value |-> NoVal])]
        /\ buffer' = [buffer EXCEPT ![i] = TRUE]
        /\ pc' = [pc EXCEPT ![i] = "parse"]
        /\ UNCHANGED err
  /\ UNCHANGED <<req, fileURL, response, data, calls>>

\* Lines 27-30: await pdfParse(buffer), trim the text, answer 200.
Parse(i) ==
  /\ pc[i] = "parse"
  /\ \/ \E e \in Thrown :
          /\ trace' = [trace EXCEPT ![i] =
                         Append(@, [op |-> "pdfParse", arg |-> fileURL[i], result |-> "throw", value |-> e])]
          /\ pc' = [pc EXCEPT ![i] = "catch"]
          /\ err' = [err EXCEPT ![i] = e]
          /\ UNCHANGED <<data, calls>>
     \/ \E d \in ParseResults(MaxLen) :
          /\ trace' = [trace EXCEPT ![i] =
                         Append(@, [op |-> "pdfParse", arg |-> fileURL[i], result |-> "ok", value |-> d])]
          /\ data' = [data EXCEPT ![i] = d]
          /\ Respond(i, SuccessResponse(ExtractedText(d)), TRUE)
  /\ UNCHANGED <<req, fileURL, response, buffer>>

\* Lines 31-36: the catch clause. Evaluating err.message on null throws a
\* TypeError out of the handler before any response is written.
Catch(i) ==
  /\ pc[i] = "catch"
  /\ IF HasProperties(err[i])
       THEN Respond(i, ServerErrorResponse(err[i]), FALSE)
       ELSE pc' = [pc EXCEPT ![i] = "rejected"] /\ UNCHANGED <<err, calls>>
  /\ UNCHANGED <<req, fileURL, response, buffer, data, trace>>

Next ==
  \E i \in Invocations :
    \/ Start(i)
    \/ ReadParam(i)
    \/ Fetch(i)
    \/ ArrayBuffer(i)
    \/ Parse(i)
    \/ Catch(i)

InitLocals ==
  /\ req = [i \in Invocations |-> NoVal]
  /\ fileURL = [i \in Invocations |-> Undefined]
  /\ response = [i \in Invocations |-> NoVal]
  /\ buffer = [i \in Invocations |-> FALSE]
  /\ data = [i \in Invocations |-> NoVal]
  /\ err = [i \in Invocations |-> NoVal]
  /\ calls = [i \in Invocations |-> <<>>]
  /\ trace = [i \in Invocations |-> <<>>]

\* No request has arrived; invocations start and interleave in every way.
Init ==
  /\ pc = [i \in Invocations |-> "idle"]
  /\ InitLocals

Spec == Init /\ [][Next]_vars

(* ------------------------ vocabulary of the claims -------------------- *)

\* The first res.status().json() call of invocation i carries status st and
\* body b; when that write is delivered it is the invocation's only response.
RespondsWith(i, st, b) ==
  /\ calls[i] # <<>>
  /\ Head(calls[i]).status = st
  /\ Head(calls[i]).body = b
  /\ Head(calls[i]).delivered => (pc[i] = "done" /\ Len(calls[i]) = 1)

\* Invocation i has sent exactly the response (st, b).
SentExactly(i, st, b) ==
  /\ pc[i] = "done"
  /\ calls[i] = <<[status |-> st, body |-> b, delivered |-> TRUE]>>

\* fileURL is in neither the query string nor the (parsed) request body.
AbsentFromBoth(r) ==
  /\ r.query = Undefined
  /\ \/ r.body.kind = "none"
     \/ r.body.kind = "object" /\ r.body.fileURL = Undefined

\* t is s without its leading and trailing whitespace.
IsTrimOf(t, s) ==
  \E a \in 0..Len(s), b \in 0..Len(s) :
    /\ a + b <= Len(s)
    /\ t = SubSeq(s, a + 1, Len(s) - b)
    /\ \A k \in 1..a : s[k] \in WhiteSpace
    /\ \A k \in (Len(s) - b + 1)..Len(s) : s[k] \in WhiteSpace
    /\ t = <<>> \/ (t[1] \notin WhiteSpace /\ t[Len(t)] \notin WhiteSpace)

\* The parser's result d holds no extractable text.
NoExtractableText(d) ==
  \/ d.tag = "null"
  \/ d.tag = "object" /\ "text" \notin DOMAIN d
  \/ d.tag = "object" /\ "text" \in DOMAIN d
       /\ \A k \in 1..Len(d.text) : d.text[k] \in WhiteSpace

Ops(i, op) == SelectSeq(trace[i], LAMBDA e : e.op = op)

(* ------------------------------- claims ------------------------------- *)

\* C1: when fileURL is absent from both the query string and the request
\* body, the handler answers 400 {ok:false, error:"Missing fileURL parameter"}
\* and attempts no outbound fetch.
C1_MissingParameter ==
  \A i \in Invocations :
    (pc[i] \notin {"idle", "read"} /\ AbsentFromBoth(req[i])) =>
      /\ RespondsWith(i, 400, [ok |-> FALSE, error |-> "Missing fileURL parameter"])
      /\ trace[i] = <<>>

C1_Witness ==
  \E i \in Invocations :
    /\ pc[i] = "done"
    /\ AbsentFromBoth(req[i])
    /\ SentExactly(i, 400, [ok |-> FALSE, error |-> "Missing fileURL parameter"])

\* C2: when the fetch returns a non-success HTTP status, the handler answers
\* 400 {ok:false, error:"Unable to fetch file from provided URL"} and neither
\* buffers the body nor invokes the PDF parser.
C2_FetchNotOk ==
  \A i \in Invocations :
    (response[i].tag = "response" /\ response[i].status \notin 200..299) =>
      /\ RespondsWith(i, 400, [ok |-> FALSE,
                               error |-> "Unable to fetch file from provided URL"])
      /\ Ops(i, "arrayBuffer") = <<>>
      /\ Ops(i, "pdfParse") = <<>>
      /\ buffer[i] = FALSE
      /\ data[i] = NoVal

C2_Witness ==
  \E i \in Invocations :
    /\ response[i].tag = "response" /\ response[i].status = 404
    /\ SentExactly(i, 400, [ok |-> FALSE,
                            error |-> "Unable to fetch file from provided URL"])

\* C3: when the fetch succeeds and the parser returns a result with a text
\* field, the handler answers 200 {ok:true, text:T} where T is the parser's
\* text with leading and trailing whitespace removed.
C3_TrimmedText ==
  \A i \in Invocations :
    (data[i].tag = "object" /\ "text" \in DOMAIN data[i]) =>
      /\ calls[i] # <<>>
      /\ Head(calls[i]).status = 200
      /\ DOMAIN Head(calls[i]).body = {"ok", "text"}
      /\ Head(calls[i]).body.ok = TRUE
      /\ IsTrimOf(Head(calls[i]).body.text, data[i].text)
      /\ Head(calls[i]).delivered => (pc[i] = "done" /\ Len(calls[i]) = 1)

C3_Witness ==
  \E i \in Invocations :
    /\ data[i] = [tag |-> "object", text |-> <<" ", "a", " ">>]
    /\ response[i].status = 200
    /\ SentExactly(i, 200, [ok |-> TRUE, text |-> <<"a">>])

\* C4 (as claimed): whatever value a step throws, the handler answers 500
\* {ok:false, error:M}, M being the value's message when it has one and its
\* stringification otherwise.
C4_AnyThrownValueReported ==
  \A i \in Invocations :
    (pc[i] \in Finished /\ "type" \in DOMAIN err[i]) =>
      /\ calls[i] # <<>>
      /\ calls[i][Len(calls[i])].status = 500
      /\ calls[i][Len(calls[i])].body =
           [ok |-> FALSE,
            error |-> IF err[i].message \notin {Undefined, ""}
                        THEN err[i].message ELSE err[i].str]

\* C5 (as claimed): every invocation that has ended has sent exactly one JSON
\* response, a success envelope with text or an error envelope with error.
C5_ExactlyOneResponse ==
  \A i \in Invocations :
    pc[i] \in Finished =>
      /\ Len(Sent(i)) = 1
      /\ \/ DOMAIN Sent(i)[1].body = {"ok", "text"} /\ Sent(i)[1].body.ok = TRUE
         \/ DOMAIN Sent(i)[1].body = {"ok", "error"} /\ Sent(i)[1].body.ok = FALSE

C7_NoTextIsEmptySuccess ==
  \A i \in Invocations :
    (data[i] # NoVal /\ NoExtractableText(data[i])) =>
      RespondsWith(i, 200, [ok |-> TRUE, text |-> <<>>])

C7_Witness ==
  \E i, j \in Invocations :
    /\ data[i] = [tag |-> "object", text |-> <<" ", " ">>]
    /\ SentExactly(i, 200, [ok |-> TRUE, text |-> <<>>])
    /\ data[j] = [tag |-> "null"]
    /\ SentExactly(j, 200, [ok |-> TRUE, text |-> <<>>])

\* C8 (as claimed): the location fetched is the query parameter whenever it
\* is present, even when empty; the body's field is used only when the query
\* parameter is not present.
C8_QueryWheneverPresent ==
  \A i \in Invocations :
    (pc[i] \in Finished /\ "query" \in DOMAIN req[i]) =>
      /\ req[i].query # Undefined =>
           (trace[i] # <<>> => trace[i][1].arg = req[i].query)
      /\ req[i].query = Undefined =>
           (trace[i] # <<>> => trace[i][1].arg = req[i].body.fileURL)

\* C8 (amended): the location fetched is the query parameter whenever it is
\* present and non-empty; the body's field is used exactly when the query
\* parameter is absent or empty.
C8_QueryWheneverNonEmpty ==
  \A i \in Invocations :
    trace[i] # <<>> =>
      /\ req[i].query \notin {Undefined, ""} => trace[i][1].arg = req[i].query
      /\ req[i].query \in {Undefined, ""} =>
           /\ req[i].body.kind = "object"
           /\ trace[i][1].arg = req[i].body.fileURL
           /\ trace[i][1].arg \notin {Undefined, ""}

C8_Witness ==
  \E i, j \in Invocations :
    /\ pc[i] \in Finished
    /\ req[i].query = "" /\ req[i].body.fileURL = "http://b"
    /\ trace[i] # <<>> /\ trace[i][1].arg = "http://b"
    /\ pc[j] \in Finished
    /\ req[j].query = "http://q" /\ req[j].body.fileURL = "http://b"
    /\ trace[j] # <<>> /\ trace[j][1].arg = "http://q"

\* C9: two invocations, however interleaved, with identical requests, the
\* same fetch outcome (the fetch and the reading of its body) and the same
\* parser outcome answer with the same status and the same text; with the
\* same write outcomes they send the same responses.
C9_Idempotent ==
  \A i, j \in Invocations :
    (/\ pc[i] \in Finished /\ pc[j] \in Finished
     /\ req[i] = req[j]
     /\ Ops(i, "fetch") = Ops(j, "fetch")
     /\ Ops(i, "arrayBuffer") = Ops(j, "arrayBuffer")
     /\ Ops(i, "pdfParse") = Ops(j, "pdfParse")) =>
      /\ (calls[i] = <<>>) <=> (calls[j] = <<>>)
      /\ calls[i] # <<>> =>
           /\ Head(calls[i]).status = Head(calls[j]).status
           /\ Head(calls[i]).body = Head(calls[j]).body
      /\ [k \in 1..Len(calls[i]) |-> calls[i][k].delivered]
           = [k \in 1..Len(calls[j]) |-> calls[j][k].delivered]
         => Sent(i) = Sent(j)

C9_Witness ==
  \E i, j \in Invocations :
    /\ i # j
    /\ req[i] = req[j]
    /\ trace[i] = trace[j]
    /\ Len(trace[i]) = 3
    /\ data[i] = [tag |-> "object", text |-> <<"a", " ">>]
    /\ SentExactly(i, 200, [ok |-> TRUE, text |-> <<"a">>])
    /\ SentExactly(j, 200, [ok |-> TRUE, text |-> <<"a">>])

\* C10: within one invocation at most one fetch is issued, the body is
\* buffered at most once and only after a fetch with a success status, the
\* parser is invoked at most once and only after the body was buffered, and
\* no step follows a step that failed.
C10_SequentialNoRetry ==
  \A i \in Invocations :
    /\ Len(trace[i]) <= 3
    /\ \A k \in 1..Len(trace[i]) :
         trace[i][k].op = <<"fetch", "arrayBuffer", "pdfParse">>[k]
    /\ \A k \in 1..(Len(trace[i]) - 1) : trace[i][k].result = "ok"
    /\ Len(trace[i]) >= 2 =>
         /\ response[i].tag = "response"
         /\ response[i].status \in 200..299
    /\ Len(trace[i]) >= 3 => buffer[i] = TRUE

C10_Witness ==
  \E i, j \in Invocations :
    /\ pc[i] = "done" /\ Len(trace[i]) = 3 /\ trace[i][3].result = "ok"
    /\ pc[j] = "done" /\ Len(trace[j]) = 1 /\ trace[j][1].result = "throw"

=============================================================================
